---- MODULE Spec2Model ----
(***************************************************************************)
(* A model of rpad's document state (src/src/main.rs): the text buffer,    *)
(* its file path, the modified flag, the find/replace fields, and the      *)
(* files the editor reads and writes.                                      *)
(*                                                                         *)
(* Text is a sequence of Unicode scalar values (numbers); a file holds a   *)
(* sequence of bytes.  Only scalars below 0x800 (one- and two-byte UTF-8)  *)
(* occur.  Presentation state that no operation on the document reads      *)
(* (font_size, word_wrap, show_about, show_find_replace, status_bar) is    *)
(* not part of the model.                                                  *)
(***************************************************************************)
EXTENDS Integers, Sequences, FiniteSets, TLC

VARIABLES
    content,        \* RpadApp.content
    current_file,   \* RpadApp.current_file: a path, or None
    is_modified,    \* RpadApp.is_modified
    find_text,      \* RpadApp.find_text
    replace_text,   \* RpadApp.replace_text
    fs,             \* the files on storage, by path
    last,           \* history: the operation that ran last and its outcome
    baseline,       \* history: content as of the last successful load, save or New
    last_loc        \* history: path of the last successful load or save since New

vars == <<content, current_file, is_modified, find_text, replace_text, fs,
          last, baseline, last_loc>>

----------------------------------------------------------------------------
(* Bounds and input sets *)

\* longest text buffer the model explores
MaxLen == 4
\* longest find / replace text the model explores
MaxPat == 2

Newline == 10

\* 'a', e-acute (two bytes in UTF-8), '\n'
Alphabet == {97, 233, Newline}
\* the single-line find and replace fields hold no newline
PatAlphabet == {97, 233}

Strs(A, n) == UNION {[1..k -> A] : k \in 0..n}

Texts == Strs(Alphabet, MaxLen)
Pats == Strs(PatAlphabet, MaxPat)

\* what the user types, and searches for, in the whole-application runs
TypedTexts == {<<>>, <<97, 97>>}
TypedPats == {<<>>, <<97>>, <<233>>}

Paths == {"p1", "p2"}
None == "none"

NoFile == [exists |-> FALSE, bytes |-> <<>>]
File(b) == [exists |-> TRUE, bytes |-> b]

\* files present at start: none, "e-acute newline", or a lone 0xE9 byte (not UTF-8)
InitialFiles == {NoFile, File(<<195, 169, 10>>), File(<<233>>)}

----------------------------------------------------------------------------
(* UTF-8: a String is stored as bytes; files hold bytes *)

Utf8EncodeChar(c) ==
    IF c < 128 THEN <<c>> ELSE <<192 + (c \div 64), 128 + (c % 64)>>

RECURSIVE Utf8Encode(_)
Utf8Encode(s) ==
    IF s = <<>> THEN <<>> ELSE Utf8EncodeChar(Head(s)) \o Utf8Encode(Tail(s))

\* String::from_utf8 as read_to_string applies it: the text, or an error
RECURSIVE Utf8Decode(_)
Utf8Decode(b) ==
    IF b = <<>> THEN [ok |-> TRUE, text |-> <<>>]
    ELSE IF b[1] < 128
    THEN LET r == Utf8Decode(Tail(b))
         IN  [ok |-> r.ok, text |-> IF r.ok THEN <<b[1]>> \o r.text ELSE <<>>]
    ELSE IF /\ b[1] >= 194 /\ b[1] <= 223
            /\ Len(b) >= 2 /\ b[2] >= 128 /\ b[2] <= 191
    THEN LET r == Utf8Decode(SubSeq(b, 3, Len(b)))
         IN  [ok |-> r.ok,
              text |-> IF r.ok THEN <<(b[1] - 192) * 64 + (b[2] - 128)>> \o r.text
                       ELSE <<>>]
    ELSE [ok |-> FALSE, text |-> <<>>]

\* variant: the text is trimmed at the end after reading
read_to_string_Trimmed(file, io_ok) ==
    IF file.exists /\ io_ok
    THEN LET r == Utf8Decode(file.bytes)
         IN  IF r.ok /\ r.text # <<>> /\ r.text[Len(r.text)] = Newline
             THEN [ok |-> TRUE, text |-> SubSeq(r.text, 1, Len(r.text) - 1)]
             ELSE r
    ELSE [ok |-> FALSE, text |-> <<>>]

\* fs::read_to_string(&path); io_ok is false when the read itself fails
read_to_string(file, io_ok) ==
    IF file.exists /\ io_ok THEN Utf8Decode(file.bytes)
    ELSE [ok |-> FALSE, text |-> <<>>]

\* fs::write(&path, &self.content): the whole text is stored, or nothing changes
fs_write(f, path, text, io_ok) ==
    IF io_ok THEN [ok |-> TRUE, fs |-> [f EXCEPT ![path] = File(Utf8Encode(text))]]
    ELSE [ok |-> FALSE, fs |-> f]

----------------------------------------------------------------------------
(* str::replace, as self.content.replace(&self.find_text, &self.replace_text) *)

\* variant: the scan resumes one position after the start of a match
RECURSIVE MatchFrom_Overlapping(_, _, _)
MatchFrom_Overlapping(s, pat, i) ==
    IF i + Len(pat) > Len(s) + 1 THEN <<>>
    ELSE IF SubSeq(s, i, i + Len(pat) - 1) = pat
    THEN <<i>> \o MatchFrom_Overlapping(s, pat, i + 1)
    ELSE MatchFrom_Overlapping(s, pat, i + 1)

\* variant: the scan stops at the first match
RECURSIVE MatchFrom_FirstOnly(_, _, _)
MatchFrom_FirstOnly(s, pat, i) ==
    IF i + Len(pat) > Len(s) + 1 THEN <<>>
    ELSE IF SubSeq(s, i, i + Len(pat) - 1) = pat
    THEN <<i>>
    ELSE MatchFrom_FirstOnly(s, pat, i + 1)

\* match_indices: start positions (1-based) of the matches, scanning left to
\* right and resuming after each match; an empty pattern matches at every
\* boundary
RECURSIVE MatchFrom(_, _, _)
MatchFrom(s, pat, i) ==
    IF i + Len(pat) > Len(s) + 1 THEN <<>>
    ELSE IF SubSeq(s, i, i + Len(pat) - 1) = pat
    THEN <<i>> \o MatchFrom(s, pat, i + (IF Len(pat) = 0 THEN 1 ELSE Len(pat)))
    ELSE MatchFrom(s, pat, i + 1)

MatchIndices(s, pat) == MatchFrom(s, pat, 1)

\* the loop of str::replace: copy s[last_end..start], push `to`, move last_end
RECURSIVE ReplaceLoop(_, _, _, _, _, _)
ReplaceLoop(s, ms, k, last_end, fromLen, to) ==
    IF k > Len(ms) THEN SubSeq(s, last_end, Len(s))
    ELSE SubSeq(s, last_end, ms[k] - 1) \o to
         \o ReplaceLoop(s, ms, k + 1, ms[k] + fromLen, fromLen, to)

Replace(s, from, to) == ReplaceLoop(s, MatchIndices(s, from), 1, 1, Len(from), to)

----------------------------------------------------------------------------
(* Status bar *)

\* split_inclusive('\n'): pieces ending in a newline, then a non-empty rest
RECURSIVE SplitInclusive(_, _)
SplitInclusive(s, cur) ==
    IF s = <<>> THEN (IF cur = <<>> THEN <<>> ELSE <<cur>>)
    ELSE IF Head(s) = Newline
    THEN <<cur \o <<Newline>>>> \o SplitInclusive(Tail(s), <<>>)
    ELSE SplitInclusive(Tail(s), cur \o <<Head(s)>>)

\* self.content.lines().count()
LinesCount(s) == Len(SplitInclusive(s, <<>>))

\* variant: self.content.len(), the number of bytes
CharsCount_Bytes(s) == Len(Utf8Encode(s))

\* self.content.chars().count(): the bytes that are not continuation bytes
CharsCount(s) ==
    LET b == Utf8Encode(s)
    IN  Cardinality({i \in 1..Len(b) : ~(b[i] >= 128 /\ b[i] <= 191)})

StatusLabel(s) == [lines |-> LinesCount(s), chars |-> CharsCount(s)]
StatusIndicator(m) == IF m THEN "Modified" ELSE "Ready"

----------------------------------------------------------------------------
(* History record written by every operation: its name, the path it was   *)
(* given (for New: the path the document had), whether it succeeded,      *)
(* whether a file dialog was shown, the number of replacements made, and  *)
(* for New whether unsaved changes were dropped.                          *)

Event(op, path, ok, asked, n, discarded) ==
    [op |-> op, path |-> path, ok |-> ok, asked |-> asked, n |-> n,
     discarded |-> discarded]

----------------------------------------------------------------------------
(* Operations *)

Init ==
    /\ content = <<>>
    /\ current_file = None
    /\ is_modified = FALSE
    /\ find_text = <<>>
    /\ replace_text = <<>>
    /\ fs \in [Paths -> InitialFiles]
    /\ last = Event("start", None, TRUE, FALSE, 0, FALSE)
    /\ baseline = <<>>
    /\ last_loc = None

\* variant: New forgets to clear the path
new_file_KeepsPath ==
    /\ content' = <<>>
    /\ is_modified' = FALSE
    /\ last' = Event("new", current_file, TRUE, FALSE, 0, is_modified)
    /\ baseline' = <<>>
    /\ UNCHANGED <<current_file, last_loc, find_text, replace_text, fs>>

new_file ==
    /\ content' = <<>>
    /\ current_file' = None
    /\ is_modified' = FALSE
    /\ last' = Event("new", current_file, TRUE, FALSE, 0, is_modified)
    /\ baseline' = <<>>
    /\ last_loc' = None
    /\ UNCHANGED <<find_text, replace_text, fs>>

\* variant: the buffer is cleared before the file is read into it
open_file_ReadsInPlace ==
    \E picked \in Paths \cup {None} : \E io_ok \in BOOLEAN :
        IF picked = None
        THEN /\ last' = Event("open", None, FALSE, TRUE, 0, FALSE)
             /\ UNCHANGED <<content, current_file, is_modified, find_text,
                            replace_text, fs, baseline, last_loc>>
        ELSE LET r == read_to_string(fs[picked], io_ok)
             IN  /\ content' = r.text
                 /\ IF r.ok
                    THEN /\ current_file' = picked
                         /\ is_modified' = FALSE
                         /\ baseline' = r.text
                         /\ last_loc' = picked
                    ELSE UNCHANGED <<current_file, is_modified, baseline,
                                     last_loc>>
                 /\ last' = Event("open", picked, r.ok, TRUE, 0, FALSE)
                 /\ UNCHANGED <<find_text, replace_text, fs>>

open_file ==
    \E picked \in Paths \cup {None} : \E io_ok \in BOOLEAN :
        IF picked = None
        THEN /\ last' = Event("open", None, FALSE, TRUE, 0, FALSE)
             /\ UNCHANGED <<content, current_file, is_modified, find_text,
                            replace_text, fs, baseline, last_loc>>
        ELSE LET r == read_to_string(fs[picked], io_ok)
             IN  /\ IF r.ok
                    THEN /\ content' = r.text
                         /\ current_file' = picked
                         /\ is_modified' = FALSE
                         /\ baseline' = r.text
                         /\ last_loc' = picked
                    ELSE UNCHANGED <<content, current_file, is_modified,
                                     baseline, last_loc>>
                 /\ last' = Event("open", picked, r.ok, TRUE, 0, FALSE)
                 /\ UNCHANGED <<find_text, replace_text, fs>>

\* variant: the path and the flag are set before the write is known to succeed
save_to_path_SetsFirst(path, op, asked) ==
    \E io_ok \in BOOLEAN :
        LET r == fs_write(fs, path, content, io_ok)
        IN  /\ fs' = r.fs
            /\ current_file' = path
            /\ is_modified' = FALSE
            /\ IF r.ok
               THEN /\ baseline' = content
                    /\ last_loc' = path
               ELSE UNCHANGED <<baseline, last_loc>>
            /\ last' = Event(op, path, r.ok, asked, 0, FALSE)
            /\ UNCHANGED <<content, find_text, replace_text>>

save_to_path(path, op, asked) ==
    \E io_ok \in BOOLEAN :
        LET r == fs_write(fs, path, content, io_ok)
        IN  /\ fs' = r.fs
            /\ IF r.ok
               THEN /\ current_file' = path
                    /\ is_modified' = FALSE
                    /\ baseline' = content
                    /\ last_loc' = path
               ELSE UNCHANGED <<current_file, is_modified, baseline, last_loc>>
            /\ last' = Event(op, path, r.ok, asked, 0, FALSE)
            /\ UNCHANGED <<content, find_text, replace_text>>

save_as(op) ==
    \E picked \in Paths \cup {None} :
        IF picked = None
        THEN /\ last' = Event(op, None, FALSE, TRUE, 0, FALSE)
             /\ UNCHANGED <<content, current_file, is_modified, find_text,
                            replace_text, fs, baseline, last_loc>>
        ELSE save_to_path(picked, op, TRUE)

save_as_file == save_as("save_as")

\* variant: Save always asks for a destination
save_file_AlwaysAsks == save_as("save")

save_file ==
    IF current_file # None
    THEN save_to_path(current_file, "save", FALSE)
    ELSE save_as("save")

\* variant: only the find text is required to be non-empty
find_and_replace_AllowsEmptyReplace ==
    IF find_text # <<>>
    THEN LET new_content == Replace(content, find_text, replace_text)
         IN  /\ Len(new_content) <= MaxLen
             /\ IF new_content # content
                THEN /\ content' = new_content
                     /\ is_modified' = TRUE
                ELSE UNCHANGED <<content, is_modified>>
             /\ last' = Event("replace", None, TRUE, FALSE,
                              Len(MatchIndices(content, find_text)), FALSE)
             /\ UNCHANGED <<current_file, find_text, replace_text, fs,
                            baseline, last_loc>>
    ELSE /\ last' = Event("replace", None, TRUE, FALSE, 0, FALSE)
         /\ UNCHANGED <<content, current_file, is_modified, find_text,
                        replace_text, fs, baseline, last_loc>>

find_and_replace ==
    IF find_text # <<>> /\ replace_text # <<>>
    THEN LET new_content == Replace(content, find_text, replace_text)
         IN  /\ Len(new_content) <= MaxLen
             /\ IF new_content # content
                THEN /\ content' = new_content
                     /\ is_modified' = TRUE
                ELSE UNCHANGED <<content, is_modified>>
             /\ last' = Event("replace", None, TRUE, FALSE,
                              Len(MatchIndices(content, find_text)), FALSE)
             /\ UNCHANGED <<current_file, find_text, replace_text, fs,
                            baseline, last_loc>>
    ELSE /\ last' = Event("replace", None, TRUE, FALSE, 0, FALSE)
         /\ UNCHANGED <<content, current_file, is_modified, find_text,
                        replace_text, fs, baseline, last_loc>>

\* variant: an edit does not raise the flag
text_edit_NoFlag(T) ==
    \E t \in T :
        /\ content' = t
        /\ last' = Event("edit", None, TRUE, FALSE, 0, FALSE)
        /\ UNCHANGED <<current_file, is_modified, find_text, replace_text, fs,
                       baseline, last_loc>>

\* the multiline TextEdit over self.content, when response.changed()
text_edit(T) ==
    \E t \in T :
        /\ content' = t
        /\ is_modified' = TRUE
        /\ last' = Event("edit", None, TRUE, FALSE, 0, FALSE)
        /\ UNCHANGED <<current_file, find_text, replace_text, fs, baseline,
                       last_loc>>

set_find_text(P) ==
    \E t \in P :
        /\ find_text' = t
        /\ last' = Event("set_find", None, TRUE, FALSE, 0, FALSE)
        /\ UNCHANGED <<content, current_file, is_modified, replace_text, fs,
                       baseline, last_loc>>

set_replace_text(P) ==
    \E t \in P :
        /\ replace_text' = t
        /\ last' = Event("set_replace", None, TRUE, FALSE, 0, FALSE)
        /\ UNCHANGED <<content, current_file, is_modified, find_text, fs,
                       baseline, last_loc>>

TypeText == text_edit(TypedTexts)
TypeFind == set_find_text(TypedPats)
TypeReplace == set_replace_text(TypedPats)

Next ==
    \/ new_file
    \/ open_file
    \/ save_file
    \/ save_as_file
    \/ find_and_replace
    \/ TypeText
    \/ TypeFind
    \/ TypeReplace

Spec == Init /\ [][Next]_vars

----------------------------------------------------------------------------------------------------------------------------------------
(* Find-and-replace and the status bar over every text up to MaxLen and    *)
(* every find and replace text up to MaxPat.  The document is as new_file  *)
(* leaves it, or was typed and not saved, or was typed and saved to p1;    *)
(* the user has filled in the find and replace fields, and presses         *)
(* Replace All.                                                            *)

InitText ==
    /\ content \in Texts
    /\ find_text \in Pats
    /\ replace_text \in Pats
    /\ last = Event("set_replace", None, TRUE, FALSE, 0, FALSE)
    /\ \/ /\ content = <<>>
          /\ current_file = None
          /\ is_modified = FALSE
          /\ fs = [p \in Paths |-> NoFile]
          /\ baseline = <<>>
          /\ last_loc = None
       \/ /\ current_file = None
          /\ is_modified = TRUE
          /\ fs = [p \in Paths |-> NoFile]
          /\ baseline = <<>>
          /\ last_loc = None
       \/ /\ current_file = "p1"
          /\ is_modified = FALSE
          /\ fs = [p \in Paths |-> IF p = "p1" THEN File(Utf8Encode(content))
                                   ELSE NoFile]
          /\ baseline = content
          /\ last_loc = "p1"

NextText == find_and_replace

SpecText == InitText /\ [][NextText]_vars

----------------------------------------------------------------------------
(* Properties of New, Open, Save and Save As, checked under Spec *)

FileOps == {"open", "save", "save_as"}
Contains(s, c) == \E i \in 1..Len(s) : s[i] = c

\* C1: is_modified is false right after every successful load and save; a
\* direct edit or a find-and-replace that changes content leaves it true, and
\* it stays true until a successful save, a successful load or New; so an
\* unmodified document holds the content of the last successful load, save
\* or New.
C1_ModifiedTracksContent ==
    /\ [](/\ (last.op \in FileOps /\ last.ok) => ~is_modified
          /\ ~is_modified => content = baseline)
    /\ [][/\ (content' # content /\ last'.op \in {"edit", "replace"})
                => is_modified'
          /\ (is_modified /\ ~is_modified')
                => (last'.op \in FileOps \cup {"new"} /\ last'.ok)]_vars

\* a find-and-replace changed a document that had been loaded or saved
C1_Witness ==
    /\ last.op = "replace" /\ last.n > 0
    /\ current_file # None
    /\ content # baseline
    /\ is_modified

\* C2: a save whose write fails leaves current_file and is_modified as they
\* were (Save or Save As, with or without a previous path), and no save
\* attempt changes content.
C2_FailedSaveKeepsState ==
    [][last'.op \in {"save", "save_as"} =>
          /\ content' = content
          /\ ~last'.ok => /\ current_file' = current_file
                          /\ is_modified' = is_modified]_vars

\* Save As of a modified document that has a path, to another path, failed
C2_Witness ==
    /\ last.op = "save_as" /\ ~last.ok
    /\ last.path \in Paths
    /\ current_file \in Paths /\ current_file # last.path
    /\ is_modified
    /\ content # <<>>

\* C3: a load whose read fails leaves content, current_file and is_modified
\* as they were.
C3_FailedLoadKeepsState ==
    [][(last'.op = "open" /\ ~last'.ok) =>
          UNCHANGED <<content, current_file, is_modified>>]_vars

\* opening a file that is not UTF-8 failed on a modified document with a path
C3_Witness ==
    /\ last.op = "open" /\ ~last.ok
    /\ last.path \in Paths
    /\ fs[last.path].exists /\ ~Utf8Decode(fs[last.path].bytes).ok
    /\ current_file \in Paths
    /\ is_modified
    /\ content # <<>>

\* C4: after New the content is empty, there is no path and the document is
\* unmodified, whatever it was before; New is always possible and leaves
\* storage alone.
C4_NewResets ==
    /\ [](ENABLED new_file)
    /\ [][last'.op = "new" =>
            /\ content' = <<>>
            /\ current_file' = None
            /\ is_modified' = FALSE
            /\ fs' = fs]_vars

\* New ran on a modified document that had a path
C4_Witness ==
    /\ last.op = "new"
    /\ last.discarded
    /\ last.path \in Paths
    /\ \E p \in Paths : fs[p].exists

\* C9: current_file is the place of the last successful load or save, and is
\* absent iff none succeeded since the start or the last New; failed or
\* cancelled file operations, edits and find-and-replace leave it alone; Save
\* with a path set asks for no destination and writes that path only.
C9_PathIsLastSuccess ==
    /\ [](current_file = last_loc)
    /\ [][/\ (\/ last'.op \in {"edit", "replace", "set_find", "set_replace"}
              \/ (last'.op \in FileOps /\ ~last'.ok))
                => current_file' = current_file
          /\ (last'.op = "save" /\ current_file # None)
                => /\ ~last'.asked
                   /\ last'.path = current_file
                   /\ \A q \in Paths \ {current_file} : fs'[q] = fs[q]
                   /\ last'.ok => fs'[current_file] = File(Utf8Encode(content))
         ]_vars

\* Save wrote a changed document back to the path it has
C9_Witness ==
    /\ last.op = "save" /\ last.ok /\ ~last.asked
    /\ current_file = last.path
    /\ content # <<>>
    /\ \E q \in Paths \ {current_file} : fs[q] # fs[current_file]

\* C10: when the document has a path and is unmodified, the file at that path
\* holds exactly the content; and a load followed at once by Save leaves the
\* file as it was.
C10_FileHoldsContent ==
    /\ []((current_file # None /\ ~is_modified)
            => fs[current_file] = File(Utf8Encode(content)))
    /\ [][(last.op = "open" /\ last.ok /\ last'.op = "save" /\ last'.ok)
            => fs'[last.path] = fs[last.path]]_vars

\* a loaded two-byte character and newline were saved back by Save
C10_Witness ==
    /\ last.op = "save" /\ last.ok /\ ~last.asked
    /\ Contains(content, 233) /\ Contains(content, Newline)
    /\ ~is_modified

----------------------------------------------------------------------------
(* Properties of find-and-replace and the status bar, checked under SpecText *)

\* positions where f occurs in s
Occ(s, f) == {i \in 1..(Len(s) - Len(f) + 1) : SubSeq(s, i, i + Len(f) - 1) = f}

\* the leftmost non-overlapping occurrences: an occurrence is taken iff it
\* starts at or after the end of every taken occurrence before it
StdMatches(s, f) ==
    CHOOSE M \in SUBSET Occ(s, f) :
        \A p \in Occ(s, f) :
            p \in M <=> \A m \in M : m < p => m + Len(f) <= p

\* the text with every taken occurrence replaced by r: position by position,
\* the start of a taken occurrence gives r, its other positions give nothing,
\* every other position gives its own character
RECURSIVE StdJoin(_, _, _, _, _)
StdJoin(s, M, f, r, i) ==
    IF i > Len(s) THEN <<>>
    ELSE (IF i \in M THEN r
          ELSE IF \E m \in M : m < i /\ i < m + Len(f) THEN <<>>
          ELSE <<s[i]>>) \o StdJoin(s, M, f, r, i + 1)

StdReplace(s, f, r) == StdJoin(s, StdMatches(s, f), f, r, 1)

\* where the k-th replacement made by one find-and-replace lies in the new text
InsertedStart(old, f, r, k) == MatchIndices(old, f)[k] + (k - 1) * (Len(r) - Len(f))

\* an occurrence of f at q shares a position with one of the n inserted copies of r
OverlapsInserted(old, f, r, n, q) ==
    \E k \in 1..n :
        LET a == InsertedStart(old, f, r, k)
        IN  a <= q + Len(f) - 1 /\ q <= a + Len(r) - 1

\* "hello world hello", "hello", "hi", "hi world hi"
HelloWorldHello ==
    <<104, 101, 108, 108, 111, 32, 119, 111, 114, 108, 100, 32,
      104, 101, 108, 108, 111>>
Hello == <<104, 101, 108, 108, 111>>
Hi == <<104, 105>>
HiWorldHi == <<104, 105, 32, 119, 111, 114, 108, 100, 32, 104, 105>>

\* C5: find-and-replace with an empty find text or an empty replace text
\* changes neither content nor is_modified.
C5_EmptyFieldNoOp ==
    [][(last'.op = "replace" /\ (find_text = <<>> \/ replace_text = <<>>)) =>
          /\ content' = content
          /\ is_modified' = is_modified]_vars

\* Replace All ran with an empty replace text on an unmodified text that
\* holds the find text
C5_Witness ==
    /\ last.op = "replace"
    /\ replace_text = <<>>
    /\ Occ(content, find_text) # {} /\ find_text # <<>>
    /\ ~is_modified

\* C6: with both fields non-empty, content becomes the leftmost
\* non-overlapping literal replacement of every occurrence (so "hello world
\* hello", hello -> hi gives "hi world hi"); is_modified becomes true exactly
\* when that differs from the old content, and otherwise content, is_modified
\* and current_file stay as they were.
C6_StandardReplace ==
    [][(last'.op = "replace" /\ find_text # <<>> /\ replace_text # <<>>) =>
          /\ content' = StdReplace(content, find_text, replace_text)
          /\ current_file' = current_file
          /\ content' # content => is_modified'
          /\ content' = content => is_modified' = is_modified
          /\ Replace(HelloWorldHello, Hello, Hi) = HiWorldHi]_vars

\* two occurrences were replaced in a saved, unmodified text
C6_Witness ==
    /\ last.op = "replace" /\ last.n >= 2
    /\ find_text # replace_text
    /\ current_file # None /\ content # baseline
    /\ is_modified

\* C7 as stated: for a non-empty find text that differs from the replace text,
\* every occurrence of the find text left after find-and-replace overlaps an
\* inserted copy of the replace text.
C7_Original ==
    [][(last'.op = "replace" /\ find_text # <<>> /\ find_text # replace_text) =>
          \A q \in Occ(content', find_text) :
              OverlapsInserted(content, find_text, replace_text, last'.n, q)]_vars

\* C7, amended: the same when the replace text is non-empty too.
C7_SurvivorsOverlapInserted ==
    [][(/\ last'.op = "replace"
        /\ find_text # <<>> /\ replace_text # <<>>
        /\ find_text # replace_text) =>
          \A q \in Occ(content', find_text) :
              OverlapsInserted(content, find_text, replace_text, last'.n, q)]_vars

\* a replacement left an occurrence of the find text behind
C7_Witness ==
    /\ last.op = "replace" /\ last.n > 0
    /\ find_text # replace_text /\ replace_text # <<>>
    /\ Occ(content, find_text) # {}

\* the number of newline-delimited segments of s
NewlineSegments(s) == Cardinality({i \in 1..Len(s) : s[i] = Newline}) + 1

\* C8 as stated: the status bar shows the number of newline-delimited
\* segments (1 for an empty text, the empty segment after a final newline
\* counted), the number of scalar values, and "Modified" iff is_modified.
C8_Original ==
    /\ StatusLabel(content).lines = NewlineSegments(content)
    /\ StatusLabel(content).chars = Len(content)
    /\ (StatusIndicator(is_modified) = "Modified") <=> is_modified
    /\ content = <<>> => StatusLabel(content) = [lines |-> 1, chars |-> 0]

\* C8, amended: the line count is the number of newlines, plus one when the
\* text is non-empty and does not end in a newline (0 for an empty text, no
\* line for the empty segment after a final newline); the rest as stated.
C8_StatusSummary ==
    /\ StatusLabel(content).lines =
          Cardinality({i \in 1..Len(content) : content[i] = Newline})
          + (IF content # <<>> /\ content[Len(content)] # Newline THEN 1 ELSE 0)
    /\ StatusLabel(content).chars = Len(content)
    /\ (StatusIndicator(is_modified) = "Modified") <=> is_modified
    /\ content = <<>> => StatusLabel(content) = [lines |-> 0, chars |-> 0]

\* a modified text with a two-byte character that ends in a newline
C8_Witness ==
    /\ content # <<>> /\ content[Len(content)] = Newline
    /\ Contains(content, 233)
    /\ is_modified
    /\ last.op = "replace" /\ last.n > 0

====
